---- MODULE Spec2Model ----
(***************************************************************************)
(* A model of XMLparse.py: structural matching of a target (pattern) tree  *)
(* against a source tree, the traversals that apply it, and the trimmer.   *)
(*                                                                         *)
(* Elements live in a heap: heap[n] is the element with identity n, a      *)
(* record of its tag, its attrib dictionary (a function from keys to       *)
(* values), its text and the ordered list of its children's identities.    *)
(* Attribute values are sequences of one-character strings, so that the    *)
(* "re{...}" wrapper test and the slice [3:-1] are computed, not assumed.  *)
(***************************************************************************)
EXTENDS Integers, Sequences, FiniteSets, TLC

VARIABLES heap, source_root, target_root, call, result

vars == <<heap, source_root, target_root, call, result>>

\* ------------------------------- bounds ---------------------------------
\* the largest source and pattern trees of Spec, in elements
MaxSourceNodes == 4
MaxTargetNodes == 2
\* the largest source and pattern trees of SpecOrder, in elements
MaxOrderSourceNodes == 4
MaxOrderTargetNodes == 3
\* the largest source and pattern trees of SpecTrim, in elements
MaxTrimSourceNodes == 4
MaxTrimTargetNodes == 3

\* ------------------------------- values ---------------------------------
\* Python's None, as the value search returns when nothing matches
None == 0
\* the outcome of a call that ended in an uncaught IndexError
IndexError == -1

Tags == {"a", "b", "c"}
Keys == {"id", "class"}

V_x      == <<"x">>
V_xy     == <<"x", "y">>
V_re_x   == <<"r", "e", "{", "x", ".", "*", "}">>
V_re_open == <<"r", "e", "{", "x">>
AttrValues == {V_x, V_xy, V_re_x, V_re_open}

Modes == {"dfs", "bfs"}

\* the empty attrib dictionary
NoAttrib == [k \in {} |-> <<>>]

\* --------------------------- Python helpers -----------------------------
\* len(root) of an Element: the number of its children
len(h, n) == Len(h[n].children)

\* list.pop(index) on a Python list, as the remaining list (index is 1-based here)
pop(list, index) ==
    [k \in 1..(Len(list) - 1) |-> IF k < index THEN list[k] ELSE list[k + 1]]

\* bool(element): ElementTree's Element is false when it has no children
truthy(h, r) == r # None /\ len(h, r) > 0

\* one regex atom against one character: "." matches any character
atom_matches(p, c) == p = "." \/ p = c

\* re.match(pat, s) for patterns of literal characters, "." and postfix "*",
\* with "^" first and "$" last: a match that starts at position 0 of s
RECURSIVE re_match_here(_, _, _, _)
re_match_here(pat, i, s, j) ==
    IF i > Len(pat) THEN TRUE
    ELSE IF i = 1 /\ pat[i] = "^" THEN re_match_here(pat, i + 1, s, j)
    ELSE IF i < Len(pat) /\ pat[i + 1] = "*"
    THEN \E k \in 0..(Len(s) - j + 1) :
            /\ \A m \in j..(j + k - 1) : atom_matches(pat[i], s[m])
            /\ re_match_here(pat, i + 2, s, j + k)
    ELSE IF i = Len(pat) /\ pat[i] = "$" THEN j > Len(s)
    ELSE /\ j <= Len(s)
         /\ atom_matches(pat[i], s[j])
         /\ re_match_here(pat, i + 1, s, j + 1)

re_match(pat, s) == re_match_here(pat, 1, s, 1)

\* re.match("re\{.*\}", v): v starts with "re{" and a "}" follows somewhere
is_regex_wrapped(v) ==
    /\ Len(v) >= 4
    /\ v[1] = "r" /\ v[2] = "e" /\ v[3] = "{"
    /\ \E k \in 4..Len(v) : v[k] = "}"

\* v[3:-1]
regex_body(v) == SubSeq(v, 4, Len(v) - 1)

\* ---------------------------- the matchers ------------------------------
\* one pass of the loop body of attribute_subset_match for key; a key absent
\* from the source raises KeyError, which the except clause turns into False
attribute_matches(sa, ta, key) ==
    IF key \notin DOMAIN sa THEN FALSE
    ELSE IF is_regex_wrapped(ta[key])
         THEN re_match(regex_body(ta[key]), sa[key])
         ELSE ta[key] = sa[key]

\* attribute_subset_match with the size test off by one: a source with exactly
\* as many attributes as the pattern is refused
attribute_subset_match_strict_size(h, source_node, target_node) ==
    LET sa == h[source_node].attrib
        ta == h[target_node].attrib
        target_size == Cardinality(DOMAIN ta)
    IN  IF target_size = 0 THEN TRUE
        ELSE IF Cardinality(DOMAIN sa) <= target_size THEN FALSE
        ELSE \A key \in DOMAIN ta : attribute_matches(sa, ta, key)

attribute_subset_match(h, source_node, target_node) ==
    LET sa == h[source_node].attrib
        ta == h[target_node].attrib
        target_size == Cardinality(DOMAIN ta)
    IN  IF target_size = 0 THEN TRUE
        ELSE IF Cardinality(DOMAIN sa) < target_size THEN FALSE
        ELSE \A key \in DOMAIN ta : attribute_matches(sa, ta, key)

RECURSIVE match_structures(_, _, _)
RECURSIVE seek_friend(_, _, _, _)
RECURSIVE setwise_loop(_, _, _, _, _)

\* the inner while loop with the cursor reset for every target child: source
\* children are looked at again, so neither order nor reuse is ruled out
RECURSIVE seek_friend_from(_, _, _, _)
seek_friend_from(h, source_children, target_child, j) ==
    IF j >= Len(source_children) THEN [friend_found |-> FALSE, j |-> j]
    ELSE IF match_structures(h, source_children[j + 1], target_child)
         THEN [friend_found |-> TRUE, j |-> j + 1]
         ELSE seek_friend_from(h, source_children, target_child, j + 1)
seek_friend_restart(h, source_children, target_child, j) ==
    seek_friend_from(h, source_children, target_child, 0)

\* the inner while loop of setwise_match: from cursor j (0-based, as in the
\* code), the value of j after the loop and whether a friend was found
seek_friend(h, source_children, target_child, j) ==
    IF j >= Len(source_children) THEN [friend_found |-> FALSE, j |-> j]
    ELSE IF match_structures(h, source_children[j + 1], target_child)
         THEN [friend_found |-> TRUE, j |-> j + 1]
         ELSE seek_friend(h, source_children, target_child, j + 1)

\* the for loop with the remaining-capacity test off by one
setwise_loop_tight(h, source_children, target_children, i, j) ==
    LET source_size == Len(source_children)
        target_size == Len(target_children)
    IN  IF i >= target_size THEN TRUE
        ELSE LET f == seek_friend(h, source_children, target_children[i + 1], j)
             IN  IF ~f.friend_found \/ source_size - f.j <= target_size - (i + 1)
                 THEN FALSE
                 ELSE setwise_loop(h, source_children, target_children, i + 1, f.j)

\* the for loop of setwise_match from target child i (0-based) with cursor j
setwise_loop(h, source_children, target_children, i, j) ==
    LET source_size == Len(source_children)
        target_size == Len(target_children)
    IN  IF i >= target_size THEN TRUE
        ELSE LET f == seek_friend(h, source_children, target_children[i + 1], j)
             IN  IF ~f.friend_found \/ source_size - f.j < target_size - (i + 1)
                 THEN FALSE
                 ELSE setwise_loop(h, source_children, target_children, i + 1, f.j)

setwise_match(h, source_root_, target_root_) ==
    LET source_size == len(h, source_root_)
        target_size == len(h, target_root_)
    IN  IF target_size = 0 THEN TRUE
        ELSE IF source_size < target_size THEN FALSE
        ELSE setwise_loop(h, h[source_root_].children, h[target_root_].children, 0, 0)

match_structures(h, s, t) ==
    /\ h[s].tag = h[t].tag
    /\ attribute_subset_match(h, s, t)
    /\ setwise_match(h, s, t)

\* ---------------------------- the traversals ----------------------------
\* listify_children(root) and list(root): the children of root, in order
listify_children(h, root) == h[root].children

RECURSIVE one_level_in_from(_, _, _)
one_level_in_from(h, parent_list, k) ==
    IF k > Len(parent_list) THEN <<>>
    ELSE h[parent_list[k]].children \o one_level_in_from(h, parent_list, k + 1)

\* all first-order children of each element of parent_list, in order
one_level_in(h, parent_list) == one_level_in_from(h, parent_list, 1)

\* the "bfs" branch without the descent: only the first level is tested
exhaustive_match_bfs_one_level(h, parent_list, t) ==
    \E k \in 1..Len(parent_list) : match_structures(h, parent_list[k], t)

\* the while loop of exhaustive_match's "bfs" branch
RECURSIVE exhaustive_match_bfs(_, _, _)
exhaustive_match_bfs(h, parent_list, t) ==
    IF Len(parent_list) = 0 THEN FALSE
    ELSE IF \E k \in 1..Len(parent_list) : match_structures(h, parent_list[k], t)
         THEN TRUE
         ELSE exhaustive_match_bfs(h, one_level_in(h, parent_list), t)

RECURSIVE exhaustive_match(_, _, _, _)
exhaustive_match(h, s, t, mode) ==
    IF match_structures(h, s, t) THEN TRUE
    ELSE IF mode = "bfs" THEN exhaustive_match_bfs(h, listify_children(h, s), t)
    ELSE IF mode = "dfs"
         THEN \E k \in 1..len(h, s) : exhaustive_match(h, h[s].children[k], t, "dfs")
    ELSE FALSE

\* ------------------------------ the trimmer ------------------------------
RECURSIVE trim_scan(_, _, _, _)

\* the scan with the extra child always removed from the front of the list
trim_scan_pop_front(h, matched_children, t, t_child_index) ==
    IF t_child_index >= len(h, t) THEN [error |-> FALSE, list |-> matched_children]
    ELSE IF t_child_index >= Len(matched_children)
         THEN [error |-> TRUE, list |-> matched_children]
    ELSE IF ~match_structures(h, matched_children[t_child_index + 1],
                              h[t].children[t_child_index + 1])
         THEN trim_scan(h, pop(matched_children, 1), t, t_child_index)
         ELSE trim_scan(h, matched_children, t, t_child_index + 1)

\* "remove extra children from beginning/middle of match": the for loop over
\* t_child_index (0-based) with its inner while loop; matched_children[t_child_index]
\* past the end of the list raises IndexError
trim_scan(h, matched_children, t, t_child_index) ==
    IF t_child_index >= len(h, t) THEN [error |-> FALSE, list |-> matched_children]
    ELSE IF t_child_index >= Len(matched_children)
         THEN [error |-> TRUE, list |-> matched_children]
    ELSE IF ~match_structures(h, matched_children[t_child_index + 1],
                              h[t].children[t_child_index + 1])
         THEN trim_scan(h, pop(matched_children, t_child_index + 1), t, t_child_index)
         ELSE trim_scan(h, matched_children, t, t_child_index + 1)

\* "remove extra children from end of match"
trim_tail(matched_children, target_size) ==
    LET diff == IF Len(matched_children) - target_size > 0
                THEN Len(matched_children) - target_size ELSE 0
    IN  SubSeq(matched_children, 1, Len(matched_children) - diff)

RECURSIVE trim_branches(_, _, _)
RECURSIVE trim_append(_, _, _, _, _)

\* "(recursion) trim each child and add it back to the root", from child i (0-based)
trim_append(h, trimmed_root, matched_children, t, i) ==
    IF i >= Len(matched_children) THEN [h |-> h, ret |-> trimmed_root]
    ELSE IF i >= len(h, t) THEN [h |-> h, ret |-> IndexError]
    ELSE LET r == trim_branches(h, matched_children[i + 1], h[t].children[i + 1])
         IN  IF r.ret = IndexError THEN r
             ELSE trim_append(
                    [r.h EXCEPT ![trimmed_root].children = Append(@, r.ret)],
                    trimmed_root, matched_children, t, i + 1)

\* a trimmer whose base case hands back the matched element itself, not a copy
trim_branches_shared(h, matched_root, t) ==
    LET trimmed_root == Len(h) + 1
        h1 == Append(h, [tag      |-> h[matched_root].tag,
                         attrib   |-> h[matched_root].attrib,
                         text     |-> h[matched_root].text,
                         children |-> <<>>])
    IN  IF len(h, t) = 0 THEN [h |-> h, ret |-> matched_root]
        ELSE LET scan == trim_scan(h1, h[matched_root].children, t, 0)
             IN  IF scan.error THEN [h |-> h1, ret |-> IndexError]
                 ELSE trim_append(h1, trimmed_root,
                                  trim_tail(scan.list, len(h, t)), t, 0)

\* trim_branches allocates its copies at the end of the heap; it returns the
\* heap after the call and the identity of the trimmed root, or IndexError
trim_branches(h, matched_root, t) ==
    LET trimmed_root == Len(h) + 1
        h1 == Append(h, [tag      |-> h[matched_root].tag,
                         attrib   |-> h[matched_root].attrib,
                         text     |-> h[matched_root].text,
                         children |-> <<>>])
    IN  IF len(h, t) = 0 THEN [h |-> h1, ret |-> trimmed_root]
        ELSE LET scan == trim_scan(h1, h[matched_root].children, t, 0)
             IN  IF scan.error THEN [h |-> h1, ret |-> IndexError]
                 ELSE trim_append(h1, trimmed_root,
                                  trim_tail(scan.list, len(h, t)), t, 0)

\* ------------------------------- search ---------------------------------
\* the position of the first element of parent_list that matches t, or 0
first_match(h, parent_list, t) ==
    IF \E k \in 1..Len(parent_list) : match_structures(h, parent_list[k], t)
    THEN CHOOSE k \in 1..Len(parent_list) :
            /\ match_structures(h, parent_list[k], t)
            /\ \A m \in 1..(k - 1) : ~match_structures(h, parent_list[m], t)
    ELSE 0

\* a found node, trimmed when strict is True
found(h, node, t, strict) ==
    IF strict THEN trim_branches(h, node, t) ELSE [h |-> h, ret |-> node]

\* the while loop of search's "bfs" branch
RECURSIVE search_bfs(_, _, _, _)
search_bfs(h, parent_list, t, strict) ==
    IF Len(parent_list) = 0 THEN [h |-> h, ret |-> None]
    ELSE LET k == first_match(h, parent_list, t)
         IN  IF k # 0 THEN found(h, parent_list[k], t, strict)
             ELSE search_bfs(h, one_level_in(h, parent_list), t, strict)

RECURSIVE search(_, _, _, _, _)
RECURSIVE search_children(_, _, _, _, _)

\* the for loop of search's "dfs" branch from child k (1-based). The recursive
\* call search(child, target_root, "dfs") binds "dfs" to strict, and
\* `strict is True` is false for it: the inner search is never strict.
\* `if r:` tests the truth value of the Element r.
search_children(h, s, k, t, strict) ==
    IF k > len(h, s) THEN [h |-> h, ret |-> None]
    ELSE LET r == search(h, h[s].children[k], t, FALSE, "dfs").ret
         IN  IF truthy(h, r) THEN found(h, r, t, strict)
             ELSE search_children(h, s, k + 1, t, strict)

search(h, s, t, strict, mode) ==
    IF mode = "dfs"
    THEN IF match_structures(h, s, t) THEN found(h, s, t, strict)
         ELSE search_children(h, s, 1, t, strict)
    ELSE IF mode = "bfs" THEN search_bfs(h, listify_children(h, s), t, strict)
    ELSE [h |-> h, ret |-> None]

\* --------------------------- exhaustive_search ---------------------------
\* match_list.append(...) of a matching node, trimmed when strict is True
collect(st, node, t, strict) ==
    IF ~match_structures(st.h, node, t) THEN st
    ELSE LET r == found(st.h, node, t, strict)
         IN  [h |-> r.h, ret |-> Append(st.ret, r.ret)]

\* one level of the "bfs" branch: the for loop over parent_list from k
RECURSIVE exhaustive_search_level(_, _, _, _, _)
exhaustive_search_level(st, parent_list, k, t, strict) ==
    IF k > Len(parent_list) THEN st
    ELSE exhaustive_search_level(collect(st, parent_list[k], t, strict),
                                 parent_list, k + 1, t, strict)

\* the while loop of the "bfs" branch
RECURSIVE exhaustive_search_bfs(_, _, _, _)
exhaustive_search_bfs(st, parent_list, t, strict) ==
    IF Len(parent_list) = 0 THEN st
    ELSE exhaustive_search_bfs(
            exhaustive_search_level(st, parent_list, 1, t, strict),
            one_level_in(st.h, parent_list), t, strict)

RECURSIVE exhaustive_search_dfs(_, _, _, _)
RECURSIVE exhaustive_search_dfs_children(_, _, _, _, _)

\* the for loop of the "dfs" branch from child k (1-based)
exhaustive_search_dfs_children(st, s, k, t, strict) ==
    IF k > len(st.h, s) THEN st
    ELSE exhaustive_search_dfs_children(
            exhaustive_search_dfs(st, st.h[s].children[k], t, strict),
            s, k + 1, t, strict)

\* the "dfs" branch: st carries the heap and match_list through the recursion
exhaustive_search_dfs(st, s, t, strict) ==
    exhaustive_search_dfs_children(collect(st, s, t, strict), s, 1, t, strict)

exhaustive_search(h, s, t, strict, mode) ==
    LET st == [h |-> h, ret |-> <<>>]
    IN  IF mode = "dfs" THEN exhaustive_search_dfs(st, s, t, strict)
        ELSE IF mode = "bfs"
             THEN exhaustive_search_bfs(st, listify_children(h, s), t, strict)
        ELSE st

\* ------------------------------ the inputs ------------------------------
\* the elements of the tree rooted at n
RECURSIVE subtree(_, _)
subtree(h, n) ==
    {n} \cup UNION {subtree(h, h[n].children[k]) : k \in 1..len(h, n)}

\* the elements of a set of identities in ascending order
RECURSIVE ascending(_)
ascending(S) ==
    IF S = {} THEN <<>>
    ELSE LET m == CHOOSE x \in S : \A y \in S : x <= y
         IN  <<m>> \o ascending(S \ {m})

\* the shapes of the ordered trees of n elements, numbered in document order:
\* element 1 is the root, every other element names an earlier one as its
\* parent, and the elements between a parent and its child lie below the parent
ParentMaps(n) ==
    {p \in [2..n -> 1..n] :
        \A i \in 2..n : /\ p[i] < i
                        /\ \A j \in (p[i] + 1)..(i - 1) : p[j] >= p[i]}

\* what et.XML builds for one element: tag, attrib and text
TagLabels == [tag : Tags, attrib : {NoAttrib}, text : {"None"}]
SourceLabels ==
    [tag : {"a", "b"}, attrib : {NoAttrib}, text : {"None"}]
      \cup {[tag |-> "b", attrib |-> [k \in {"id"} |-> V_xy], text |-> "t"]}
TargetLabels ==
    [tag : {"a", "b"}, attrib : {NoAttrib}, text : {"None"}]
      \cup {[tag |-> "b", attrib |-> [k \in {"id"} |-> V_re_x], text |-> "None"]}

\* every attrib dictionary over Keys and AttrValues
AttribMaps == UNION {[D -> AttrValues] : D \in SUBSET Keys}
AttribLabels == [tag : {"a"}, attrib : AttribMaps, text : {"None"}]

\* the element at position i of a parsed tree whose identities start after base
Element(label, p, n, i, base) ==
    [tag      |-> label.tag,
     attrib   |-> label.attrib,
     text     |-> label.text,
     children |-> ascending({base + c : c \in {c \in 2..n : p[c] = i}})]

\* the input elements: the source tree's and the pattern tree's
SourceNodes == subtree(heap, source_root)
TargetNodes == subtree(heap, target_root)
InputNodes == SourceNodes \cup TargetNodes

NoCall == [op |-> "none", strict |-> FALSE, mode |-> "none"]

\* the heap after parsing a source tree of ns elements (shape ps, labels ls)
\* and a pattern tree of nt elements (shape pt, labels lt)
ParsedHeap(ns, nt, ps, pt, ls, lt) ==
    [i \in 1..(ns + nt) |->
        IF i <= ns THEN Element(ls[i], ps, ns, i, 0)
        ELSE Element(lt[i - ns], pt, nt, i - ns, ns)]

\* a source tree of at most max_s elements and a pattern tree of at most max_t,
\* parsed into a fresh heap; no call made yet
Parsed(max_s, max_t, source_labels, target_labels) ==
    \E ns \in 1..max_s, nt \in 1..max_t :
      \E ps \in ParentMaps(ns), pt \in ParentMaps(nt) :
        \E ls \in [1..ns -> source_labels], lt \in [1..nt -> target_labels] :
          /\ heap = ParsedHeap(ns, nt, ps, pt, ls, lt)
          /\ source_root = 1
          /\ target_root = ns + 1
          /\ call = NoCall
          /\ result = None

Init == Parsed(MaxSourceNodes, MaxTargetNodes, SourceLabels, TargetLabels)
InitOrder == Parsed(MaxOrderSourceNodes, MaxOrderTargetNodes, TagLabels, TagLabels)
InitTrim == Parsed(MaxTrimSourceNodes, MaxTrimTargetNodes, SourceLabels, TargetLabels)
InitAttributes == Parsed(1, 1, AttribLabels, AttribLabels)

\* ------------------------------ the calls -------------------------------
\* The caller is single-threaded: it makes one call on the parsed trees, looks
\* at the result, and drops it before the next call.
Called(op, strict, mode) == [op |-> op, strict |-> strict, mode |-> mode]

CallAttributeSubsetMatch ==
    /\ call = NoCall
    /\ call' = Called("attribute_subset_match", FALSE, "none")
    /\ result' = attribute_subset_match(heap, source_root, target_root)
    /\ UNCHANGED <<heap, source_root, target_root>>

CallSetwiseMatch ==
    /\ call = NoCall
    /\ call' = Called("setwise_match", FALSE, "none")
    /\ result' = setwise_match(heap, source_root, target_root)
    /\ UNCHANGED <<heap, source_root, target_root>>

CallMatchStructures ==
    /\ call = NoCall
    /\ call' = Called("match_structures", FALSE, "none")
    /\ result' = match_structures(heap, source_root, target_root)
    /\ UNCHANGED <<heap, source_root, target_root>>

CallExhaustiveMatch ==
    /\ call = NoCall
    /\ \E mode \in Modes :
         /\ call' = Called("exhaustive_match", FALSE, mode)
         /\ result' = exhaustive_match(heap, source_root, target_root, mode)
    /\ UNCHANGED <<heap, source_root, target_root>>

CallSearch ==
    /\ call = NoCall
    /\ \E strict \in BOOLEAN, mode \in Modes :
         LET r == search(heap, source_root, target_root, strict, mode)
         IN  /\ call' = Called("search", strict, mode)
             /\ result' = r.ret
             /\ heap' = IF r.ret = IndexError THEN heap ELSE r.h
    /\ UNCHANGED <<source_root, target_root>>

CallExhaustiveSearch ==
    /\ call = NoCall
    /\ \E strict \in BOOLEAN, mode \in Modes :
         LET r == exhaustive_search(heap, source_root, target_root, strict, mode)
         IN  /\ call' = Called("exhaustive_search", strict, mode)
             /\ result' = r.ret
             /\ heap' = r.h
    /\ UNCHANGED <<source_root, target_root>>

CallTrimBranches ==
    /\ call = NoCall
    /\ LET r == trim_branches(heap, source_root, target_root)
       IN  /\ call' = Called("trim_branches", FALSE, "none")
           /\ result' = r.ret
           /\ heap' = IF r.ret = IndexError THEN heap ELSE r.h
    /\ UNCHANGED <<source_root, target_root>>

\* the caller drops the result: the elements a strict call allocated are freed
DropResult ==
    /\ call # NoCall
    /\ call' = NoCall
    /\ result' = None
    /\ heap' = SubSeq(heap, 1, Cardinality(InputNodes))
    /\ UNCHANGED <<source_root, target_root>>

Next ==
    \/ CallAttributeSubsetMatch
    \/ CallSetwiseMatch
    \/ CallMatchStructures
    \/ CallExhaustiveMatch
    \/ CallSearch
    \/ CallExhaustiveSearch
    \/ CallTrimBranches
    \/ DropResult

NextOrder ==
    \/ CallSetwiseMatch
    \/ CallMatchStructures
    \/ DropResult

NextTrim ==
    \/ CallTrimBranches
    \/ DropResult

NextAttributes ==
    \/ CallAttributeSubsetMatch
    \/ DropResult

Spec == Init /\ [][Next]_vars
SpecOrder == InitOrder /\ [][NextOrder]_vars
SpecTrim == InitTrim /\ [][NextTrim]_vars
SpecAttributes == InitAttributes /\ [][NextAttributes]_vars

\* ------------------------- vocabulary of the claims ----------------------
\* the source elements that satisfy match_structures against the pattern
Matching == {n \in SourceNodes : match_structures(heap, n, target_root)}

\* the elements of a sequence
Range(seq) == {seq[k] : k \in 1..Len(seq)}

\* the tree rooted at n in pre-order (document order)
RECURSIVE PreOrder(_, _)
RECURSIVE PreOrderOfAll(_, _, _)
PreOrderOfAll(h, list, k) ==
    IF k > Len(list) THEN <<>>
    ELSE PreOrder(h, list[k]) \o PreOrderOfAll(h, list, k + 1)
PreOrder(h, n) == <<n>> \o PreOrderOfAll(h, h[n].children, 1)

\* the elements at depth d below n (n itself at depth 0), left to right
RECURSIVE AtDepth(_, _, _)
RECURSIVE AtDepthOfAll(_, _, _, _)
AtDepthOfAll(h, list, k, d) ==
    IF k > Len(list) THEN <<>>
    ELSE AtDepth(h, list[k], d) \o AtDepthOfAll(h, list, k + 1, d)
AtDepth(h, n, d) ==
    IF d = 0 THEN <<n>> ELSE AtDepthOfAll(h, h[n].children, 1, d - 1)

\* the tree rooted at n in level order
RECURSIVE LevelOrderFrom(_, _, _)
LevelOrderFrom(h, n, d) ==
    IF AtDepth(h, n, d) = <<>> THEN <<>>
    ELSE AtDepth(h, n, d) \o LevelOrderFrom(h, n, d + 1)
LevelOrder(h, n) == LevelOrderFrom(h, n, 0)

VisitOrder(mode) ==
    IF mode = "dfs" THEN PreOrder(heap, source_root) ELSE LevelOrder(heap, source_root)

\* the first element of seq that is in S, or None
FirstIn(seq, S) ==
    IF \E k \in 1..Len(seq) : seq[k] \in S
    THEN seq[CHOOSE k \in 1..Len(seq) :
                /\ seq[k] \in S
                /\ \A m \in 1..(k - 1) : seq[m] \notin S]
    ELSE None

\* the strictly increasing maps of n positions into 1..m
Increasing(n, m) ==
    {f \in [1..n -> 1..m] : \A i \in 1..n, k \in 1..n : i < k => f[i] < f[k]}

\* p's children can be paired, in pattern order, with children of s at
\* strictly increasing positions, each pair satisfying match_structures
PairingExists(h, s, p) ==
    \E f \in Increasing(len(h, p), len(h, s)) :
        \A i \in 1..len(h, p) :
            match_structures(h, h[s].children[f[i]], h[p].children[i])

\* matching by the best assignment instead of the greedy one: tag, attributes,
\* and some order-preserving assignment of distinct source children to the
\* pattern's children, each pair matching by this same rule
RECURSIVE AssignmentMatch(_, _, _)
AssignmentExists(h, s, p) ==
    \E f \in Increasing(len(h, p), len(h, s)) :
        \A i \in 1..len(h, p) :
            AssignmentMatch(h, h[s].children[f[i]], h[p].children[i])
AssignmentMatch(h, s, p) ==
    /\ h[s].tag = h[p].tag
    /\ attribute_subset_match(h, s, p)
    /\ AssignmentExists(h, s, p)

\* t is a pruned copy of m: same tag and attributes, and t's children are
\* pruned copies of children of m taken in m's order
RECURSIVE PrunedCopy(_, _, _)
PrunedCopy(h, t, m) ==
    /\ h[t].tag = h[m].tag
    /\ h[t].attrib = h[m].attrib
    /\ \E f \in Increasing(len(h, t), len(h, m)) :
          \A i \in 1..len(h, t) :
              PrunedCopy(h, h[t].children[i], h[m].children[f[i]])

\* ------------------------------- claims ----------------------------------

\* C1: exhaustive_match, in either mode, returns True exactly when some element
\* of the source tree, the root included, satisfies match_structures against
\* the pattern.
C1_ExistsIffSomeNodeMatches ==
    call.op = "exhaustive_match" => (result <=> Matching # {})

\* a breadth-first call that is true only because of an element two levels down
C1_Witness ==
    /\ call.op = "exhaustive_match"
    /\ call.mode = "bfs"
    /\ result = TRUE
    /\ ~match_structures(heap, source_root, target_root)
    /\ \A k \in 1..len(heap, source_root) :
          ~match_structures(heap, heap[source_root].children[k], target_root)

\* C2: non-strict exhaustive_search, in either mode, returns exactly the
\* matching elements of the source tree, the root included, each exactly once.
C2_FindAllIsTheMatchingSet ==
    (call.op = "exhaustive_search" /\ ~call.strict) =>
        /\ Range(result) = Matching
        /\ Len(result) = Cardinality(Matching)

\* C3: under one mode the three queries agree on existence: exhaustive_search
\* is non-empty iff exhaustive_match is True iff search returns a node.
C3_QueriesAgreeOnExistence ==
    (call.op = "search" /\ ~call.strict) =>
        /\ (result # None)
             <=> exhaustive_match(heap, source_root, target_root, call.mode)
        /\ (result # None)
             <=> exhaustive_search(heap, source_root, target_root,
                                   FALSE, call.mode).ret # <<>>

\* C4: the node a non-strict search returns is the first matching element in
\* the mode's visitation order, that is element 0 of exhaustive_search's list.
C4_FindFirstIsFirstOfFindAll ==
    (call.op = "search" /\ ~call.strict /\ result # None) =>
        LET all == exhaustive_search(heap, source_root, target_root,
                                     FALSE, call.mode).ret
        IN  /\ result = FirstIn(VisitOrder(call.mode), Matching)
            /\ all # <<>>
            /\ result = all[1]

\* C5: trimming a matching pair raises nothing and returns a tree that matches
\* the pattern and is a pruned copy of the matched tree, children in order.
C5_TrimKeepsTheMatch ==
    (call.op = "trim_branches" /\ match_structures(heap, source_root, target_root)) =>
        /\ result # IndexError
        /\ match_structures(heap, result, target_root)
        /\ PrunedCopy(heap, result, source_root)

\* a trim of a matching pair that kept two children and discarded one that
\* lay between them, and whose first kept child was itself trimmed against a
\* pattern child with children
C5_Witness ==
    /\ call.op = "trim_branches"
    /\ match_structures(heap, source_root, target_root)
    /\ result # IndexError
    /\ len(heap, target_root) = 2
    /\ len(heap, result) = 2
    /\ len(heap, source_root) >= 3
    /\ match_structures(heap, heap[source_root].children[1],
                        heap[target_root].children[1])
    /\ ~match_structures(heap, heap[source_root].children[2],
                         heap[target_root].children[2])

\* C6: trimming a pair that does not satisfy match_structures ends in an error
\* and never returns a tree.
C6_TrimRejectsNonMatch ==
    (call.op = "trim_branches" /\ ~match_structures(heap, source_root, target_root)) =>
        result = IndexError

\* C7: no call changes the source tree or the pattern tree, and the trees a
\* call allocates share no element with them.
C7_Frame ==
    /\ source_root' = source_root
    /\ target_root' = target_root
    /\ \A n \in InputNodes : n \in DOMAIN heap' /\ heap'[n] = heap[n]
    /\ call'.op \in {"trim_branches", "search"} /\ call'.strict
         => (result' \notin {None, IndexError}
               => subtree(heap', result') \cap InputNodes = {})
    /\ call'.op = "trim_branches" /\ result' # IndexError
         => subtree(heap', result') \cap InputNodes = {}
    /\ call'.op = "exhaustive_search" /\ call'.strict
         => \A k \in 1..Len(result') :
               subtree(heap', result'[k]) \cap InputNodes = {}
C7_InputsNeverChange == [][C7_Frame]_vars

\* a strict exhaustive search that returned two trimmed trees
C7_Witness ==
    /\ call.op = "exhaustive_search"
    /\ call.strict
    /\ Len(result) >= 2
    /\ len(heap, target_root) > 0

\* whether every value of the pattern's attributes is a literal
LiteralPattern == \A k \in DOMAIN heap[target_root].attrib :
                      ~is_regex_wrapped(heap[target_root].attrib[k])

\* C8: for literal pattern values attribute_subset_match is True exactly when
\* every pattern key is in the source with an equal value; an absent key gives
\* False, and source keys the pattern does not name change nothing.
C8_LiteralSubset ==
    (call.op = "attribute_subset_match" /\ LiteralPattern) =>
        /\ result \in BOOLEAN
        /\ result <=> \A k \in DOMAIN heap[target_root].attrib :
                         /\ k \in DOMAIN heap[source_root].attrib
                         /\ heap[source_root].attrib[k] = heap[target_root].attrib[k]

\* a pattern key absent from a source that has as many keys as the pattern
C8_Witness ==
    /\ call.op = "attribute_subset_match"
    /\ LiteralPattern
    /\ DOMAIN heap[target_root].attrib = {"id"}
    /\ DOMAIN heap[source_root].attrib = {"class"}
    /\ result = FALSE

\* the greedy scan returns False on source s and pattern p of heap h although
\* an order-preserving assignment exists
Missed(h, s, p) == AssignmentExists(h, s, p) /\ ~setwise_match(h, s, p)

\* C9 as stated: some source and pattern have an order-preserving assignment
\* that the greedy scan of setwise_match misses: the parsed pair at hand, or
\* some other pair of trees within the bounds.
C9_GreedyMissesAnAssignment ==
    \/ Missed(heap, source_root, target_root)
    \/ \E ns \in 1..MaxOrderSourceNodes, nt \in 1..MaxOrderTargetNodes :
         \E ps \in ParentMaps(ns), pt \in ParentMaps(nt) :
           \E ls \in [1..ns -> TagLabels], lt \in [1..nt -> TagLabels] :
             Missed(ParsedHeap(ns, nt, ps, pt, ls, lt), 1, ns + 1)

\* C9 amended: whenever an order-preserving assignment exists, the greedy scan
\* with its remaining-capacity check returns True; it misses none.
C9_GreedyFindsEveryAssignment ==
    call.op = "setwise_match" =>
        (AssignmentExists(heap, source_root, target_root) => result = TRUE)

\* the greedy scan had a choice of friend for the first pattern child (two
\* source children match it), a later pattern child was still to be placed,
\* and the scan succeeded
C9_Witness ==
    /\ call.op = "setwise_match"
    /\ len(heap, target_root) >= 2
    /\ len(heap, source_root) >= 3
    /\ match_structures(heap, heap[source_root].children[1],
                        heap[target_root].children[1])
    /\ match_structures(heap, heap[source_root].children[2],
                        heap[target_root].children[1])
    /\ AssignmentExists(heap, source_root, target_root)
    /\ result = TRUE

SourceIsACB ==
    /\ heap[source_root].tag = "a"
    /\ len(heap, source_root) = 2
    /\ heap[heap[source_root].children[1]].tag = "c"
    /\ heap[heap[source_root].children[2]].tag = "b"
TargetIsABC ==
    /\ heap[target_root].tag = "a"
    /\ len(heap, target_root) = 2
    /\ heap[heap[target_root].children[1]].tag = "b"
    /\ heap[heap[target_root].children[2]].tag = "c"

\* C10: match_structures is true only if the pattern's children pair, in
\* pattern order, with source children at strictly increasing positions, each
\* pair matching; source a(c,b) does not match pattern a(b,c).
C10_OrderSensitive ==
    call.op = "match_structures" =>
        /\ result = TRUE => PairingExists(heap, source_root, target_root)
        /\ (SourceIsACB /\ TargetIsABC) => result = FALSE

\* match_structures was called on source a(c,b) and pattern a(b,c)
C10_Witness ==
    /\ call.op = "match_structures"
    /\ SourceIsACB
    /\ TargetIsABC
    /\ result = FALSE

====
